---- MODULE Spec2Model ----
(***************************************************************************)
(* Model of cli/module_generate/scripts/generate_stubs.py: the generator   *)
(* that turns the declaration of a resource interface into the source of a *)
(* skeleton implementation; then of etc/splitter.py, which splits the      *)
(* tests of the packages into bins, and of sync_jira_release.py, which     *)
(* closes the tickets of a release.                                        *)
(*                                                                         *)
(* Python values are modelled as follows.                                  *)
(*   - a str is a TLA+ string; an f-string is a concatenation with \o;     *)
(*     the empty str "" is falsy, as in the code;                          *)
(*   - an ast node is a record with a field kind naming its class and the  *)
(*     fields of that class the code reads or writes;                      *)
(*   - a list is a sequence, a set is a set.                               *)
(* The ast is mutated in place by the code: the model keeps the parsed     *)
(* trees in variables and each step replaces the part it assigns.          *)
(***************************************************************************)
EXTENDS Naturals, Sequences, FiniteSets, TLC

VARIABLES
    pc,               \* position in main, or in the harness of a pure function
    call,             \* harness: the arguments of the function under check
    ret,              \* harness: what it returned
    ret2,             \* harness: what it returned when applied to ret again
    request,          \* main: the arguments of main
    files,            \* main: what the interpreter finds installed: the sources of the
                      \* declaring module and of the base module, and what is missing
    resource_name,    \* main: the resolved resource name
    tree,             \* main: tree.body of the declaring module (mutated in place)
    type_tree,        \* main: tree.body of the category base module (mutated in place)
    i,                \* main: index of the next statement of tree / type_tree
    j,                \* main: index of the next statement of the resource class body
    nodes,            \* main: the set nodes
    imports,          \* main: the list imports
    subclasses,       \* main: the list subclasses
    abstract_methods, \* main: the list abstract_methods
    resource_file,    \* main: the formatted document
    sorted_code,      \* main: the returned document
    runs,             \* parallel runs: each run's position, texts and open file
    disk,             \* parallel runs: the scratch files, by path
    stack,            \* parse_subclass step by step: the frames of its calls
    visited,          \* parse_subclass step by step: the classes it was called on
    jira,             \* sync_jira_release: the tickets as the Jira server holds them
    sent,             \* sync_jira_release: the requests sent to the Jira server
    sync              \* sync_jira_release: the locals of main in its loop

vars == <<pc, call, ret, ret2, request, files, resource_name, tree, type_tree, i, j, nodes,
          imports, subclasses, abstract_methods, resource_file, sorted_code, runs, disk,
          stack, visited, jira, sent, sync>>

walkVars == <<stack, visited>>

syncVars == <<jira, sent, sync>>

\* what the steps outside main leave alone
mainVars == <<request, files, resource_name, tree, type_tree, i, j, nodes, imports, subclasses,
              abstract_methods, resource_file, sorted_code, walkVars, syncVars>>

parVars == <<runs, disk>>

harnessVars == <<call, ret, ret2, parVars, walkVars, syncVars>>

\* no parallel runs
NoRuns == runs = << >> /\ disk = << >>

\* parse_subclass is not running
NoWalk == stack = << >> /\ visited = << >>

\* sync_jira_release is not running
NoSync == jira = << >> /\ sent = << >> /\ sync = << >>

None == [kind |-> "None"]

(***************************************************************************)
(* ast expressions used as annotations                                     *)
(***************************************************************************)
Name(id) == [kind |-> "Name", id |-> id]

Attribute(value, attr) == [kind |-> "Attribute", value |-> value, attr |-> attr]

Subscript(value, slice) == [kind |-> "Subscript", value |-> value, slice |-> slice]

TupleExpr(elts) == [kind |-> "Tuple", elts |-> elts]

\* return_attribute(value, attr): the attribute access value.attr
return_attribute(value, attr) == Attribute(Name(value), attr)

\* A plausible slip: every annotation whose last name is local is (re)qualified,
\* an Attribute included.
RECURSIVE update_annotation_requalify(_, _, _, _)
update_annotation_requalify(rname, annotation, nds, parent) ==
    LET value == IF parent # "" THEN parent ELSE rname
    IN  IF annotation.kind = "Name" /\ annotation.id \in nds
        THEN return_attribute(value, annotation.id)
        ELSE IF annotation.kind = "Attribute" /\ annotation.attr \in nds
        THEN return_attribute(value \o "." \o annotation.value.id, annotation.attr)
        ELSE IF annotation.kind = "Subscript"
        THEN [annotation EXCEPT !.slice =
                 update_annotation_requalify(rname, annotation.slice, nds, parent)]
        ELSE annotation

\* A plausible slip: the membership test in nodes is left out and every Name is
\* qualified.
RECURSIVE update_annotation_any_name(_, _, _, _)
update_annotation_any_name(rname, annotation, nds, parent) ==
    LET value == IF parent # "" THEN parent ELSE rname
    IN  IF annotation.kind = "Name"
        THEN return_attribute(value, annotation.id)
        ELSE IF annotation.kind = "Subscript"
        THEN [annotation EXCEPT !.slice =
                 update_annotation_any_name(rname, annotation.slice, nds, parent)]
        ELSE annotation

\* update_annotation: a Name in nodes becomes parent.Name (resource_name.Name when
\* parent is empty); a Subscript has its slice replaced by the slice updated (the
\* Subscript object itself is assigned to); anything else is returned as it is.
RECURSIVE update_annotation(_, _, _, _)
update_annotation(rname, annotation, nds, parent) ==
    IF annotation.kind = "Name" /\ annotation.id \in nds
    THEN LET value == IF parent # "" THEN parent ELSE rname
         IN  return_attribute(value, annotation.id)
    ELSE IF annotation.kind = "Subscript"
    THEN [annotation EXCEPT !.slice =
             update_annotation(rname, annotation.slice, nds, parent)]
    ELSE annotation

(***************************************************************************)
(* ast statements                                                          *)
(***************************************************************************)
Arg(arg, annotation) == [arg |-> arg, annotation |-> annotation]

\* the statement  self.logger.error(<func.name, between backquotes> is not implemented)
\* (a TLA+ string cannot hold a backquote: ' stands for it)
LogError(name) ==
    [kind |-> "Expr",
     value |-> [kind |-> "Call", func |-> "self.logger.error",
                args |-> << "'" \o name \o "' is not implemented" >>]]

\* the statement  raise NotImplementedError()
RaiseNotImplemented ==
    [kind |-> "Raise", exc |-> [kind |-> "Call", func |-> "NotImplementedError",
                                args |-> << >>]]

DocString == [kind |-> "Expr", value |-> [kind |-> "Constant"]]

Ellipsis == [kind |-> "Expr", value |-> [kind |-> "Ellipsis"]]

Pass == [kind |-> "Pass"]

\* A plausible slip: the stub statements are put in front of the body instead of
\* replacing it.
replace_async_func_keep_body(rname, func, nds, parent) ==
    [func EXCEPT
        !.args.args = [k \in DOMAIN @ |->
            [@[k] EXCEPT !.annotation = update_annotation(rname, @, nds, parent)]],
        !.body = << LogError(func.name), RaiseNotImplemented >> \o @,
        !.decorator_list = << >>,
        !.returns = IF @.kind \in {"Name", "Subscript"}
                    THEN update_annotation(rname, @, nds, parent) ELSE @]

\* A plausible slip: the arguments are rebuilt from their names and annotations
\* and the defaults are lost.
replace_async_func_drop_defaults(rname, func, nds, parent) ==
    [func EXCEPT
        !.args.args = [k \in DOMAIN @ |->
            [@[k] EXCEPT !.annotation = update_annotation(rname, @, nds, parent)]],
        !.args.defaults = << >>,
        !.args.kw_defaults = << >>,
        !.body = << LogError(func.name), RaiseNotImplemented >>,
        !.decorator_list = << >>,
        !.returns = IF @.kind \in {"Name", "Subscript"}
                    THEN update_annotation(rname, @, nds, parent) ELSE @]

\* replace_async_func: func after the call (it is changed in place).
replace_async_func(rname, func, nds, parent) ==
    [func EXCEPT
        !.args.args = [k \in DOMAIN @ |->
            [@[k] EXCEPT !.annotation = update_annotation(rname, @, nds, parent)]],
        !.body = << LogError(func.name), RaiseNotImplemented >>,
        !.decorator_list = << >>,
        !.returns = IF @.kind \in {"Name", "Subscript"}
                    THEN update_annotation(rname, @, nds, parent) ELSE @]

(***************************************************************************)
(* statements of a class body                                              *)
(***************************************************************************)
AnnAssign(target) == [kind |-> "AnnAssign", target |-> target]

ClassDef(name, body) == [kind |-> "ClassDef", name |-> name, bases |-> << >>, body |-> body]

\* a def or an async def; no positional parameter has a default and every
\* keyword-only parameter has the default None
FuncDef(kind, name, decorator_list, args, kwonlyargs, returns) ==
    [kind |-> kind, name |-> name, decorator_list |-> decorator_list,
     args |-> [args |-> args, kwonlyargs |-> kwonlyargs, defaults |-> << >>,
               kw_defaults |-> [k \in DOMAIN kwonlyargs |-> "None"]],
     returns |-> returns, body |-> << DocString, Ellipsis >>]

(***************************************************************************)
(* ast.unparse: the source text of a node.  An expression becomes its text *)
(* (so Name("A.B") and the attribute access A.B read the same); a          *)
(* statement becomes a record of the texts of its parts.  The text is a    *)
(* copy: a later change of the node does not change it.                    *)
(***************************************************************************)
RECURSIVE JoinComma(_)
JoinComma(texts) ==
    IF texts = << >> THEN ""
    ELSE IF Len(texts) = 1 THEN texts[1]
    ELSE texts[1] \o ", " \o JoinComma(Tail(texts))

RECURSIVE unparse_expr(_)
unparse_expr(e) ==
    CASE e.kind = "Name" -> e.id
      [] e.kind = "Attribute" -> unparse_expr(e.value) \o "." \o e.attr
      [] e.kind = "Subscript" ->
            unparse_expr(e.value) \o "[" \o unparse_expr(e.slice) \o "]"
      [] e.kind = "Tuple" ->
            JoinComma([k \in DOMAIN e.elts |-> unparse_expr(e.elts[k])])
      [] OTHER -> ""

unparse_args(args) ==
    [k \in DOMAIN args |->
        [arg |-> args[k].arg, annotation |-> unparse_expr(args[k].annotation)]]

RECURSIVE unparse(_)
unparse(stmt) ==
    CASE stmt.kind = "ClassDef" ->
            [kind |-> "class", name |-> stmt.name,
             bases |-> [k \in DOMAIN stmt.bases |-> unparse_expr(stmt.bases[k])],
             body |-> [k \in DOMAIN stmt.body |-> unparse(stmt.body[k])]]
      [] stmt.kind \in {"FunctionDef", "AsyncFunctionDef"} ->
            [kind |-> IF stmt.kind = "AsyncFunctionDef" THEN "async def" ELSE "def",
             name |-> stmt.name,
             decorator_list |-> stmt.decorator_list,
             args |-> unparse_args(stmt.args.args),
             kwonlyargs |-> unparse_args(stmt.args.kwonlyargs),
             defaults |-> stmt.args.defaults,
             kw_defaults |-> stmt.args.kw_defaults,
             returns |-> unparse_expr(stmt.returns),
             body |-> stmt.body]
      [] stmt.kind = "AnnAssign" ->
            [kind |-> "AnnAssign", target |-> unparse_expr(stmt.target)]
      [] OTHER -> stmt

(***************************************************************************)
(* return_subclass / parse_subclass                                        *)
(***************************************************************************)
\* the statements of body at the positions not in removed, in order
RECURSIVE Keep(_, _, _)
Keep(body, removed, k) ==
    IF k > Len(body) THEN << >>
    ELSE (IF k \in removed THEN << >> ELSE << body[k] >>) \o Keep(body, removed, k + 1)

\* A plausible slip: no placeholder is put into a body that pruning emptied.
prune_no_pass(body, nodes_to_remove) == Keep(body, nodes_to_remove, 1)

\* A plausible slip: a nested class is put on the removal list with the fields.
prune_drop_classes(body, nodes_to_remove) ==
    LET kept == Keep(body, nodes_to_remove
                           \cup {k \in DOMAIN body : body[k].kind = "ClassDef"}, 1)
    IN  IF kept = << >> THEN << Pass >> ELSE kept

\* the end of parse_subclass: every node of nodes_to_remove is removed from the
\* body, and a body left empty becomes [Pass].  nodes_to_remove holds positions:
\* list.remove finds a node by identity.
prune(body, nodes_to_remove) ==
    LET kept == Keep(body, nodes_to_remove, 1)
    IN  IF kept = << >> THEN << Pass >> ELSE kept

\* A plausible slip: a child is rebased on the name of its parent, not on the
\* dotted path the parent was given.
child_parent_name_only(stmt) == stmt.name

\* what parse_subclass passes down as parent, to a nested class and to
\* replace_async_func: stmt.bases[0].id
child_parent(stmt) == stmt.bases[1].id

\* A plausible slip: the base is built in the wrong order.
rebase_reversed(rname, stmt, parent) ==
    LET p == IF parent # "" THEN parent ELSE rname
    IN  [stmt EXCEPT !.bases = << Name(stmt.name \o "." \o p) >>]

\* the head of parse_subclass: stmt.bases = [Name(f"{parent}.{stmt.name}")],
\* with resource_name for an empty parent
rebase(rname, stmt, parent) ==
    LET p == IF parent # "" THEN parent ELSE rname
    IN  [stmt EXCEPT !.bases = << Name(p \o "." \o stmt.name) >>]

\* the loop of parse_subclass over stmt.body from position k on, with the body
\* as changed so far, the set nodes and the positions to remove; ok is FALSE
\* when the loop raised (a target without id)
RECURSIVE parse_subclass(_, _, _), parse_body(_, _, _, _, _, _)
parse_body(rname, stmt, body, k, nds, nodes_to_remove) ==
    IF k > Len(body)
    THEN [ok |-> TRUE, body |-> prune(body, nodes_to_remove)]
    ELSE LET cstmt == body[k] IN
         IF cstmt.kind = "Expr"
            \/ (cstmt.kind = "FunctionDef" /\ cstmt.name = "__init__")
         THEN parse_body(rname, stmt, body, k + 1, nds, nodes_to_remove \cup {k})
         ELSE IF cstmt.kind = "AnnAssign"
         THEN IF cstmt.target.kind # "Name"
              THEN [ok |-> FALSE, body |-> body]
              ELSE parse_body(rname, stmt, body, k + 1,
                              nds \cup {cstmt.target.id}, nodes_to_remove \cup {k})
         ELSE IF cstmt.kind = "ClassDef"
         THEN LET sub == parse_subclass(rname, cstmt, child_parent(stmt))
              IN  IF ~sub.ok
                  THEN [ok |-> FALSE, body |-> [body EXCEPT ![k] = sub.stmt]]
                  ELSE parse_body(rname, stmt, [body EXCEPT ![k] = sub.stmt], k + 1,
                                  nds, nodes_to_remove)
         ELSE IF cstmt.kind = "AsyncFunctionDef"
         THEN parse_body(rname, stmt,
                         [body EXCEPT ![k] =
                             replace_async_func(rname, cstmt, nds, child_parent(stmt))],
                         k + 1, nds, nodes_to_remove)
         ELSE parse_body(rname, stmt, body, k + 1, nds, nodes_to_remove)

\* parse_subclass: stmt after the call (it is changed in place), and whether the
\* call returned (ok) or raised
parse_subclass(rname, stmt, parent) ==
    LET based == rebase(rname, stmt, parent)
        walked == parse_body(rname, based, based.body, 1, {}, {})
    IN  [ok |-> walked.ok, stmt |-> [based EXCEPT !.body = walked.body]]

\* return_subclass(resource_name, stmt) with the default parent "": the node as
\* changed, and the text returned
return_subclass(rname, stmt) ==
    LET parsed == parse_subclass(rname, stmt, "")
    IN  [ok |-> parsed.ok, stmt |-> parsed.stmt,
         text |-> IF parsed.ok THEN unparse(parsed.stmt) ELSE None]

(***************************************************************************)
(* The inputs: annotations and class bodies up to a size.                  *)
(***************************************************************************)
\* the largest number of ast nodes of an annotation
MaxAnnSize == 4

\* the largest number of statements of a nested class, itself included
MaxNodes == 4

Atoms == {Name("Pose"), Name("List"), return_attribute("Arm", "Pose")}

SubscriptValues == {Name("List"), Name("Pose")}

RECURSIVE AnnOfSize(_), TupleOfSize(_)
AnnOfSize(n) ==
    IF n = 1 THEN Atoms
    ELSE {Subscript(v, s) : v \in SubscriptValues,
                            s \in AnnOfSize(n - 1) \cup TupleOfSize(n - 1)}

TupleOfSize(n) ==
    IF n < 3 THEN {}
    ELSE UNION {{TupleExpr(<< a, b >>) : a \in AnnOfSize(k), b \in AnnOfSize(n - 1 - k)} :
                k \in 1..(n - 2)}

Annotations == UNION {AnnOfSize(n) : n \in 1..MaxAnnSize}

Field == AnnAssign(Name("Pose"))

AbstractAsync ==
    FuncDef("AsyncFunctionDef", "get_pose", << "abc.abstractmethod" >>,
            << Arg("self", None), Arg("pose", Name("Pose")) >>,
            << Arg("timeout", Subscript(Name("Optional"), Name("float"))) >>,
            Name("Pose"))

ConcreteAsync ==
    FuncDef("AsyncFunctionDef", "close", << >>, << Arg("self", None) >>, << >>, None)

AbstractSync ==
    FuncDef("FunctionDef", "is_moving", << "abc.abstractmethod" >>,
            << Arg("self", None) >>, << >>, Name("bool"))

InitDef ==
    FuncDef("FunctionDef", "__init__", << >>,
            << Arg("self", None), Arg("pose", Name("Pose")) >>, << >>, None)

ClassNames == {"Pose", "Inner"}

\* the statements a nested class body is drawn from, besides nested classes
SubLeaf == {DocString, InitDef, Field, AbstractAsync, AbstractSync}

\* the statements of size n (a class counts itself and its body), and the bodies
\* of total size n; a class body holds at least one statement
RECURSIVE StmtsOfSize(_, _), BodiesOfSize(_, _)
StmtsOfSize(leaf, n) ==
    IF n = 1 THEN leaf
    ELSE {ClassDef(c, b) : c \in ClassNames, b \in BodiesOfSize(leaf, n - 1)}

BodiesOfSize(leaf, n) ==
    IF n = 0 THEN {<< >>}
    ELSE UNION {{<< st >> \o r : st \in StmtsOfSize(leaf, k),
                                 r \in BodiesOfSize(leaf, n - k)} : k \in 1..n}

NestedClasses == UNION {StmtsOfSize(SubLeaf, n) : n \in 2..MaxNodes}

Idle ==
    /\ request = None /\ files = None
    /\ resource_name = "" /\ tree = << >> /\ type_tree = << >>
    /\ i = 0 /\ j = 0 /\ nodes = {} /\ imports = << >> /\ subclasses = << >>
    /\ abstract_methods = << >> /\ resource_file = None /\ sorted_code = None

(***************************************************************************)
(* update_annotation applied to an annotation, and to its own result       *)
(***************************************************************************)
InitResolve ==
    /\ pc = "resolve"
    /\ call \in [resource_name : {"Arm"}, annotation : Annotations,
                 nodes : SUBSET {"Pose", "List"}, parent : {"", "Arm.Inner"}]
    /\ ret = None /\ ret2 = None
    /\ Idle /\ NoRuns /\ NoWalk /\ NoSync

Resolve ==
    /\ pc = "resolve"
    /\ ret' = update_annotation(call.resource_name, call.annotation, call.nodes,
                                call.parent)
    /\ pc' = "resolve_again"
    /\ UNCHANGED <<call, ret2, mainVars, parVars>>

ResolveAgain ==
    /\ pc = "resolve_again"
    /\ ret2' = update_annotation(call.resource_name, ret, call.nodes, call.parent)
    /\ pc' = "resolved"
    /\ UNCHANGED <<call, ret, mainVars, parVars>>

NextResolve == Resolve \/ ResolveAgain

SpecResolve == InitResolve /\ [][NextResolve]_vars

(***************************************************************************)
(* return_subclass applied to a nested class of the resource class         *)
(***************************************************************************)
InitSubclass ==
    /\ pc = "call"
    /\ call \in [resource_name : {"Arm"}, stmt : NestedClasses]
    /\ ret = None /\ ret2 = None
    /\ Idle /\ NoRuns /\ NoWalk /\ NoSync

CallReturnSubclass ==
    /\ pc = "call"
    /\ ret' = return_subclass(call.resource_name, call.stmt)
    /\ pc' = "returned"
    /\ UNCHANGED <<call, ret2, mainVars, parVars>>

NextSubclass == CallReturnSubclass

SpecSubclass == InitSubclass /\ [][NextSubclass]_vars

(***************************************************************************)
(* main                                                                    *)
(***************************************************************************)
alias(name, asname) == [name |-> name, asname |-> asname]

Import(names) == [kind |-> "Import", names |-> names]

ImportFrom(module, names) == [kind |-> "ImportFrom", module |-> module, names |-> names]

modules_to_ignore == {"abc", "component_base", "service_base", "viam.resource.types"}

\* the strings main appends to imports for an Import statement: one for each
\* name that is not ignored
RECURSIVE import_lines(_)
import_lines(names) ==
    IF names = << >> THEN << >>
    ELSE LET imp == Head(names) IN
         (IF imp.name \in modules_to_ignore THEN << >>
          ELSE << IF imp.asname # ""
                  THEN "import " \o imp.name \o " as " \o imp.asname
                  ELSE "import " \o imp.name >>)
         \o import_lines(Tail(names))

\* the string main appends to imports for an ImportFrom statement
import_from_line(stmt) ==
    "from " \o stmt.module \o " import "
    \o JoinComma([k \in DOMAIN stmt.names |->
                    IF stmt.names[k].asname # ""
                    THEN stmt.names[k].name \o " as " \o stmt.names[k].asname
                    ELSE stmt.names[k].name])

\* resource_name: the table of main, else the words of the subtype capitalized
\* and joined (given here for the subtypes of Requests)
ResourceNameOf(resource_subtype) ==
    CASE resource_subtype = "input" -> "Controller"
      [] resource_subtype = "slam" -> "SLAM"
      [] resource_subtype = "mlmodel" -> "MLModel"
      [] resource_subtype = "arm" -> "Arm"
      [] resource_subtype = "movement_sensor" -> "MovementSensor"

\* model_name_pascal: the words of slugify(model_name) capitalized and joined
\* (given here for the model names of Requests)
ModelNamePascal(model_name) ==
    CASE model_name = "my-arm" -> "MyArm"
      [] model_name = "fake arm" -> "FakeArm"

Requests ==
    {[resource_type |-> "component", resource_subtype |-> "arm", namespace |-> "acme",
      mod_name |-> "my-module", model_name |-> "my-arm"]}

\* the import statements the text of resource_file starts with
HeaderImports ==
    << ImportFrom("typing", << alias("ClassVar", ""), alias("Mapping", ""),
                               alias("Sequence", ""), alias("Tuple", "") >>),
       ImportFrom("typing_extensions", << alias("Self", "") >>),
       ImportFrom("viam.proto.app.robot", << alias("ComponentConfig", "") >>),
       ImportFrom("viam.proto.common", << alias("ResourceName", "") >>),
       ImportFrom("viam.resource.base", << alias("ResourceBase", "") >>),
       ImportFrom("viam.resource.easy_resource", << alias("EasyResource", "") >>),
       ImportFrom("viam.resource.types", << alias("Model", ""), alias("ModelFamily", "") >>) >>

\* from viam.{1}s.{2} import *
StarImport(req) ==
    ImportFrom("viam." \o req.resource_type \o "s." \o req.resource_subtype,
               << alias("*", "") >>)

\* the imports main adds for the category-wide methods
DoCommandImports ==
    << ImportFrom("typing", << alias("Optional", "") >>),
       ImportFrom("viam.utils", << alias("ValueTypes", "") >>) >>

GetGeometriesImports ==
    << ImportFrom("typing", << alias("Any", ""), alias("Dict", ""), alias("List", ""),
                               alias("Optional", "") >>),
       ImportFrom("viam.proto.common", << alias("Geometry", "") >>) >>

Range(seq) == {seq[k] : k \in DOMAIN seq}

\* A plausible slip: the list is joined as it was collected, list(set(...)) left
\* out.
ListOfSet_as_collected(lines) == {lines}

\* list(set(lines)): every order of the distinct strings (the iteration order of
\* a set of str differs from one interpreter run to the next)
ListOfSet(lines) ==
    LET S == Range(lines)
    IN  {f \in [1..Cardinality(S) -> S] : \A a, b \in 1..Cardinality(S) : a # b => f[a] # f[b]}

\* A plausible slip: the arguments of format are shifted by one from {8} on, so
\* that {8} is filled with model_name and {9} with the nested classes.
ResourceFileText_shifted(req, rname, collected, subs, methods) ==
    [import_block |-> [k \in DOMAIN HeaderImports |-> import_from_line(HeaderImports[k])]
                      \o collected \o << import_from_line(StarImport(req)) >>,
     class_name |-> ModelNamePascal(req.model_name),
     class_bases |-> << rname, "EasyResource" >>,
     model |-> << req.namespace, req.mod_name, req.model_name >>,
     lifecycle |-> << "new", "validate_config" >>,
     subclasses |-> << req.model_name >>,
     abstract_methods |-> subs,
     formatted |-> FALSE]

\* the text assigned to resource_file by the format call, with the collected
\* imports in the given order
ResourceFileText(req, rname, collected, subs, methods) ==
    [import_block |-> [k \in DOMAIN HeaderImports |-> import_from_line(HeaderImports[k])]
                      \o collected \o << import_from_line(StarImport(req)) >>,
     class_name |-> ModelNamePascal(req.model_name),
     class_bases |-> << rname, "EasyResource" >>,
     model |-> << req.namespace, req.mod_name, req.model_name >>,
     lifecycle |-> << "new", "validate_config" >>,
     subclasses |-> subs,
     abstract_methods |-> methods,
     formatted |-> FALSE]

\* the lines of the {0} field of the text: the collected imports as emitted
CollectedImports(doc) ==
    SubSeq(doc.import_block, Len(HeaderImports) + 1, Len(doc.import_block) - 1)

(***************************************************************************)
(* isort.code, as far as the import block goes: the imports of the block   *)
(* are read back from its lines, the names imported from one module are    *)
(* merged into one statement, and the statements are written section by    *)
(* section (standard library, then third party), plain imports before from *)
(* imports, modules and names in isort's order.                            *)
(***************************************************************************)
\* the import statements of the declaring module the model draws from
SourceImports ==
    {Import(<< alias("abc", "") >>),
     Import(<< alias("numpy", "np") >>),
     ImportFrom("typing", << alias("Optional", "") >>),
     ImportFrom("viam.resource.types", << alias("API", "") >>)}

\* every import statement whose line can stand in the block
KnownImports ==
    Range(HeaderImports) \cup {StarImport(r) : r \in Requests}
    \cup Range(DoCommandImports) \cup Range(GetGeometriesImports)
    \cup {f \in SourceImports : IF f.kind = "Import" THEN import_lines(f.names) # << >>
                                 ELSE f.module \notin modules_to_ignore}

ImportLine(form) ==
    IF form.kind = "Import" THEN import_lines(form.names)[1] ELSE import_from_line(form)

ParseImport(line) == CHOOSE form \in KnownImports : ImportLine(form) = line

\* modules in isort's order, by section
IsortSections ==
    << << "typing" >>,
       << "numpy", "typing_extensions", "viam.components.arm", "viam.proto.app.robot",
          "viam.proto.common", "viam.resource.base", "viam.resource.easy_resource",
          "viam.resource.types", "viam.utils" >> >>

\* imported names in isort's order
IsortNames ==
    << "*", "Any", "ClassVar", "ComponentConfig", "Dict", "EasyResource", "Geometry",
       "List", "Mapping", "Model", "ModelFamily", "Optional", "Pose", "ResourceBase",
       "ResourceName", "Self", "Sequence", "Tuple", "ValueTypes" >>

RECURSIVE PlainLines(_, _)
PlainLines(forms, mods) ==
    IF mods = << >> THEN << >>
    ELSE LET fs == {f \in forms : f.kind = "Import" /\ f.names[1].name = Head(mods)}
         IN  (IF fs = {} THEN << >> ELSE << ImportLine(CHOOSE f \in fs : TRUE) >>)
             \o PlainLines(forms, Tail(mods))

RECURSIVE FromLines(_, _)
FromLines(forms, mods) ==
    IF mods = << >> THEN << >>
    ELSE LET names == UNION {{f.names[k].name : k \in DOMAIN f.names} :
                             f \in {g \in forms : g.kind = "ImportFrom"
                                                  /\ g.module = Head(mods)}}
             sorted == SelectSeq(IsortNames, LAMBDA n : n \in names)
         IN  (IF names = {} THEN << >>
              ELSE << "from " \o Head(mods) \o " import " \o JoinComma(sorted) >>)
             \o FromLines(forms, Tail(mods))

isort_imports(block) ==
    LET forms == {ParseImport(block[k]) : k \in DOMAIN block}
    IN  PlainLines(forms, IsortSections[1]) \o FromLines(forms, IsortSections[1])
        \o PlainLines(forms, IsortSections[2]) \o FromLines(forms, IsortSections[2])

\* A plausible slip: the text is returned as black left it.
isort_code_skipped(doc) == doc

\* isort.code(resource_file)
isort_code(doc) == [doc EXCEPT !.import_block = isort_imports(@)]

(***************************************************************************)
(* The inputs of main: the sources of the two modules it parses.           *)
(***************************************************************************)
\* the largest number of statements of the two modules together, the two
\* class statements and the import of the base module not counted
MaxStmts == 4

\* the statements the body of the resource class is drawn from, besides
\* nested classes
MainLeaf == {Field, AbstractAsync, ConcreteAsync, AbstractSync}

DoCommand ==
    FuncDef("AsyncFunctionDef", "do_command", << "abc.abstractmethod" >>,
            << Arg("self", None),
               Arg("command", Subscript(Name("Mapping"),
                                        TupleExpr(<< Name("str"), Name("ValueTypes") >>))) >>,
            << Arg("timeout", Subscript(Name("Optional"), Name("float"))) >>,
            Subscript(Name("Mapping"), TupleExpr(<< Name("str"), Name("ValueTypes") >>)))

GetGeometries ==
    FuncDef("AsyncFunctionDef", "get_geometries", << >>,
            << Arg("self", None) >>,
            << Arg("timeout", Subscript(Name("Optional"), Name("float"))) >>,
            Subscript(Name("List"), Name("Geometry")))

FromRobot ==
    FuncDef("FunctionDef", "from_robot", << "classmethod" >>,
            << Arg("cls", None), Arg("robot", Name("RobotClient")) >>, << >>, Name("Self"))

\* the statements the body of the category base class is drawn from
BaseMethods == {DoCommand, GetGeometries, FromRobot}

Inputs ==
    UNION {UNION {UNION {
        {[module |-> imps \o << ClassDef("Arm", body) >>,
          type_module |-> << Import(<< alias("abc", "") >>),
                             ClassDef("ComponentBase",
                                      IF base = << >> THEN << DocString >> ELSE base) >>,
          missing |-> {}] :
            imps \in [1..a -> SourceImports],
            body \in BodiesOfSize(MainLeaf, b),
            base \in [1..c -> BaseMethods]} :
        c \in 0..(MaxStmts - a - b)} :
        b \in 1..(MaxStmts - a)} :
        a \in 0..(MaxStmts - 1)}

(***************************************************************************)
(* The run of main, one step for each statement it visits.                 *)
(***************************************************************************)
Init ==
    /\ pc = "start"
    /\ request \in Requests
    /\ files \in Inputs
    /\ resource_name = "" /\ tree = << >> /\ type_tree = << >>
    /\ i = 0 /\ j = 0 /\ nodes = {} /\ imports = << >> /\ subclasses = << >>
    /\ abstract_methods = << >> /\ resource_file = None /\ sorted_code = None
    /\ call = None /\ ret = None /\ ret2 = None
    /\ NoRuns /\ NoWalk /\ NoSync

\* import isort, import_module(module_name), resource_name, the empty lists,
\* ast.parse; a package or a module that is not installed raises
\* ModuleNotFoundError out of main
LoadModule ==
    /\ pc = "start"
    /\ IF files.missing # {}
       THEN /\ pc' = "raised"
            /\ UNCHANGED <<resource_name, tree, i, j>>
       ELSE /\ resource_name' = ResourceNameOf(request.resource_subtype)
            /\ tree' = files.module
            /\ i' = 1 /\ j' = 1
            /\ pc' = "scan"
    /\ UNCHANGED <<request, files, type_tree, nodes, imports, subclasses,
                   abstract_methods, resource_file, sorted_code, harnessVars>>

\* the resource class is the statement being visited
InResourceClass ==
    /\ pc = "scan" /\ i <= Len(tree)
    /\ tree[i].kind = "ClassDef" /\ tree[i].name = resource_name

\* the loop variables after the statement j of the class body at i
AdvanceIn(t) ==
    IF j < Len(t[i].body) THEN i' = i /\ j' = j + 1 ELSE i' = i + 1 /\ j' = 1

ScanImport ==
    /\ pc = "scan" /\ i <= Len(tree)
    /\ tree[i].kind = "Import"
    /\ imports' = imports \o import_lines(tree[i].names)
    /\ i' = i + 1
    /\ UNCHANGED <<pc, request, files, resource_name, tree, type_tree, j, nodes,
                   subclasses, abstract_methods, resource_file, sorted_code, harnessVars>>

ScanImportFrom ==
    /\ pc = "scan" /\ i <= Len(tree)
    /\ tree[i].kind = "ImportFrom"
    /\ tree[i].module # "" /\ tree[i].module \notin modules_to_ignore
    /\ imports' = Append(imports, import_from_line(tree[i]))
    /\ i' = i + 1
    /\ UNCHANGED <<pc, request, files, resource_name, tree, type_tree, j, nodes,
                   subclasses, abstract_methods, resource_file, sorted_code, harnessVars>>

\* a nested class of the resource class: return_subclass changes it in place and
\* its text is appended to subclasses; an exception leaves main
ScanNestedClass ==
    /\ InResourceClass
    /\ tree[i].body[j].kind = "ClassDef"
    /\ LET r == return_subclass(resource_name, tree[i].body[j]) IN
        /\ tree' = [tree EXCEPT ![i].body[j] = r.stmt]
        /\ IF r.ok
           THEN /\ subclasses' = Append(subclasses, r.text)
                /\ AdvanceIn(tree)
                /\ pc' = pc
           ELSE /\ pc' = "raised"
                /\ UNCHANGED <<subclasses, i, j>>
    /\ UNCHANGED <<request, files, resource_name, type_tree, nodes, imports,
                   abstract_methods, resource_file, sorted_code, harnessVars>>

\* an annotated assignment of the resource class: its target's id joins nodes
ScanField ==
    /\ InResourceClass
    /\ tree[i].body[j].kind = "AnnAssign"
    /\ IF tree[i].body[j].target.kind = "Name"
       THEN /\ nodes' = nodes \cup {tree[i].body[j].target.id}
            /\ AdvanceIn(tree)
            /\ pc' = pc
       ELSE /\ pc' = "raised"
            /\ UNCHANGED <<nodes, i, j>>
    /\ UNCHANGED <<request, files, resource_name, tree, type_tree, imports, subclasses,
                   abstract_methods, resource_file, sorted_code, harnessVars>>

\* an async def of the resource class: replace_async_func changes it in place and
\* its text is appended to abstract_methods
ScanMethod ==
    /\ InResourceClass
    /\ tree[i].body[j].kind = "AsyncFunctionDef"
    /\ LET f == replace_async_func(resource_name, tree[i].body[j], nodes, "") IN
        /\ tree' = [tree EXCEPT ![i].body[j] = f]
        /\ abstract_methods' = Append(abstract_methods, unparse(f))
    /\ AdvanceIn(tree)
    /\ UNCHANGED <<pc, request, files, resource_name, type_tree, nodes, imports,
                   subclasses, resource_file, sorted_code, harnessVars>>

\* any other statement of the resource class
ScanOther ==
    /\ InResourceClass
    /\ tree[i].body[j].kind \notin {"ClassDef", "AnnAssign", "AsyncFunctionDef"}
    /\ AdvanceIn(tree)
    /\ UNCHANGED <<pc, request, files, resource_name, tree, type_tree, nodes, imports,
                   subclasses, abstract_methods, resource_file, sorted_code, harnessVars>>

\* a statement of the module that no branch of the loop takes
SkipStmt ==
    /\ pc = "scan" /\ i <= Len(tree)
    /\ ~(tree[i].kind = "Import")
    /\ ~(tree[i].kind = "ImportFrom" /\ tree[i].module # ""
         /\ tree[i].module \notin modules_to_ignore)
    /\ ~(tree[i].kind = "ClassDef" /\ tree[i].name = resource_name)
    /\ i' = i + 1
    /\ UNCHANGED <<pc, request, files, resource_name, tree, type_tree, j, nodes, imports,
                   subclasses, abstract_methods, resource_file, sorted_code, harnessVars>>

\* import_module of the category base module, ast.parse
LoadTypeModule ==
    /\ pc = "scan" /\ i > Len(tree)
    /\ type_tree' = files.type_module
    /\ i' = 1 /\ j' = 1
    /\ pc' = "scan_base"
    /\ UNCHANGED <<request, files, resource_name, tree, nodes, imports, subclasses,
                   abstract_methods, resource_file, sorted_code, harnessVars>>

\* the imports main appends after the stub of a category-wide method
BaseImports(name) ==
    IF name = "do_command"
    THEN [k \in DOMAIN DoCommandImports |-> import_from_line(DoCommandImports[k])]
    ELSE IF name = "get_geometries"
    THEN [k \in DOMAIN GetGeometriesImports |-> import_from_line(GetGeometriesImports[k])]
    ELSE << >>

\* an async def of a class of the base module
ScanBaseMethod ==
    /\ pc = "scan_base" /\ i <= Len(type_tree)
    /\ type_tree[i].kind = "ClassDef"
    /\ type_tree[i].body[j].kind = "AsyncFunctionDef"
    /\ LET f == replace_async_func("", type_tree[i].body[j], {}, "") IN
        /\ type_tree' = [type_tree EXCEPT ![i].body[j] = f]
        /\ abstract_methods' = Append(abstract_methods, unparse(f))
        /\ imports' = imports \o BaseImports(f.name)
    /\ AdvanceIn(type_tree)
    /\ UNCHANGED <<pc, request, files, resource_name, tree, nodes, subclasses,
                   resource_file, sorted_code, harnessVars>>

\* any other statement of a class of the base module
SkipBaseStmt ==
    /\ pc = "scan_base" /\ i <= Len(type_tree)
    /\ type_tree[i].kind = "ClassDef"
    /\ type_tree[i].body[j].kind # "AsyncFunctionDef"
    /\ AdvanceIn(type_tree)
    /\ UNCHANGED <<pc, request, files, resource_name, tree, type_tree, nodes, imports,
                   subclasses, abstract_methods, resource_file, sorted_code, harnessVars>>

\* a statement of the base module that is no class
SkipBaseTop ==
    /\ pc = "scan_base" /\ i <= Len(type_tree)
    /\ type_tree[i].kind # "ClassDef"
    /\ i' = i + 1
    /\ UNCHANGED <<pc, request, files, resource_name, tree, type_tree, j, nodes, imports,
                   subclasses, abstract_methods, resource_file, sorted_code, harnessVars>>

\* resource_file = <the template>.format("\n".join(list(set(imports))), ...)
Format ==
    /\ pc = "scan_base" /\ i > Len(type_tree)
    /\ \E collected \in ListOfSet(imports) :
          resource_file' = ResourceFileText(request, resource_name, collected,
                                            subclasses, abstract_methods)
    /\ pc' = "write"
    /\ UNCHANGED <<request, files, resource_name, tree, type_tree, i, j, nodes, imports,
                   subclasses, abstract_methods, sorted_code, harnessVars>>

\* the text is written to the scratch file and black is run on it: the text is
\* read back reformatted, or black failed (CalledProcessError) and the text stays
\* as it was; the scratch file is removed
RunBlack ==
    /\ pc = "write"
    /\ \/ resource_file' = [resource_file EXCEPT !.formatted = TRUE]
       \/ resource_file' = resource_file
    /\ pc' = "sort"
    /\ UNCHANGED <<request, files, resource_name, tree, type_tree, i, j, nodes, imports,
                   subclasses, abstract_methods, sorted_code, harnessVars>>

\* sorted_code = isort.code(resource_file); return sorted_code
Isort ==
    /\ pc = "sort"
    /\ sorted_code' = isort_code(resource_file)
    /\ pc' = "done"
    /\ UNCHANGED <<request, files, resource_name, tree, type_tree, i, j, nodes, imports,
                   subclasses, abstract_methods, resource_file, harnessVars>>

Next ==
    \/ LoadModule \/ ScanImport \/ ScanImportFrom \/ ScanNestedClass \/ ScanField
    \/ ScanMethod \/ ScanOther \/ SkipStmt \/ LoadTypeModule \/ ScanBaseMethod
    \/ SkipBaseStmt \/ SkipBaseTop \/ Format \/ RunBlack \/ Isort

Spec == Init /\ [][Next]_vars

(***************************************************************************)
(* main in the environments and on the sources where it can fail, and for  *)
(* requests that differ in their naming fields                             *)
(***************************************************************************)
\* an annotated assignment whose target is no plain name:  registry["pose"]: Pose
BadField == AnnAssign(Subscript(Name("registry"), Name("pose")))

\* async def move_to(self, pose: Pose, force: bool = False, *,
\*                   timeout: Optional[float] = None) -> Pose
MoveTo ==
    [FuncDef("AsyncFunctionDef", "move_to", << "abc.abstractmethod" >>,
             << Arg("self", None), Arg("pose", Name("Pose")), Arg("force", Name("bool")) >>,
             << Arg("timeout", Subscript(Name("Optional"), Name("float"))) >>,
             Name("Pose"))
        EXCEPT !.args.defaults = << "False" >>]

\* async def set_pose(self, *, pose: Pose = None) -> None
SetPose ==
    FuncDef("AsyncFunctionDef", "set_pose", << "abc.abstractmethod" >>,
            << Arg("self", None) >>, << Arg("pose", Name("Pose")) >>, None)

\* a declaring module with every kind of statement main tells apart
FullModule ==
    << Import(<< alias("abc", "") >>),
       Import(<< alias("numpy", "np") >>),
       ImportFrom("typing", << alias("Optional", "") >>),
       ImportFrom("viam.resource.types", << alias("API", "") >>),
       ClassDef("Arm", << DocString, Field, ClassDef("Pose", << Field, AbstractAsync >>),
                          AbstractAsync, MoveTo, SetPose, ConcreteAsync, AbstractSync >>) >>

FullTypeModule ==
    << Import(<< alias("abc", "") >>),
       ClassDef("ComponentBase", << DocString, DoCommand, GetGeometries, FromRobot >>) >>

\* the bodies of the resource class with a nested class that cannot be processed
\* next to one that can
MalformedBodies ==
    {<< ClassDef("Pose", << BadField >>), ClassDef("Inner", << AbstractAsync >>) >>,
     << ClassDef("Inner", << AbstractAsync >>), ClassDef("Pose", << BadField >>) >>,
     << ClassDef("Inner", << ClassDef("Pose", << BadField >>) >>), AbstractAsync >>}

\* the declaring modules without a class of the resolved name
NoResourceClass ==
    {<< ClassDef("ArmBase", << AbstractAsync >>) >>,
     << ImportFrom("typing", << alias("Optional", "") >>) >>}

\* a declaring module whose resource class declares do_command itself, as the
\* base class ComponentBase does
OverridingModule ==
    << Import(<< alias("abc", "") >>),
       ClassDef("Arm", << AbstractAsync, DoCommand >>) >>

\* missing: "isort" when the package isort is not installed, "module" when
\* viam.{resource_type}s.{resource_subtype}.{resource_subtype} is not
EnvInputs ==
    {[module |-> m, type_module |-> FullTypeModule, missing |-> s] :
        m \in {FullModule, OverridingModule} \cup NoResourceClass
              \cup {<< ClassDef("Arm", b) >> : b \in MalformedBodies},
        s \in SUBSET {"isort", "module"}}

EnvRequests ==
    [resource_type : {"component"}, resource_subtype : {"arm"},
     namespace : {"acme", "viam"}, mod_name : {"my-module", "arms"},
     model_name : {"my-arm", "fake arm"}]

InitEnv ==
    /\ pc = "start"
    /\ request \in EnvRequests
    /\ files \in EnvInputs
    /\ resource_name = "" /\ tree = << >> /\ type_tree = << >>
    /\ i = 0 /\ j = 0 /\ nodes = {} /\ imports = << >> /\ subclasses = << >>
    /\ abstract_methods = << >> /\ resource_file = None /\ sorted_code = None
    /\ call = None /\ ret = None /\ ret2 = None
    /\ NoRuns /\ NoWalk /\ NoSync

SpecEnv == InitEnv /\ [][Next]_vars

(***************************************************************************)
(* What the claims speak of                                                *)
(***************************************************************************)
IsMethod(stmt) == stmt.kind \in {"FunctionDef", "AsyncFunctionDef"}

IsAsync(stmt) == stmt.kind = "AsyncFunctionDef"

IsClass(stmt) == stmt.kind = "ClassDef"

IsAbstract(stmt) == IsMethod(stmt) /\ "abc.abstractmethod" \in Range(stmt.decorator_list)

\* the body of the resource class as the declaring module gives it
SourceBody ==
    LET classes == SelectSeq(files.module,
                             LAMBDA st : st.kind = "ClassDef"
                                         /\ st.name = ResourceNameOf(request.resource_subtype))
    IN  IF classes = << >> THEN << >> ELSE classes[1].body

\* the statements of the classes of the base module as its source gives them
RECURSIVE BodiesOf(_)
BodiesOf(stmts) ==
    IF stmts = << >> THEN << >>
    ELSE (IF IsClass(Head(stmts)) THEN Head(stmts).body ELSE << >>) \o BodiesOf(Tail(stmts))

\* the methods the interface declares: its own, then the category-wide ones
DeclaredMethods ==
    SelectSeq(SourceBody, IsMethod) \o SelectSeq(BodiesOf(files.type_module), IsMethod)

NamesOf(seq) == [k \in DOMAIN seq |-> seq[k].name]

CanonicalStub(text) ==
    text.body = << LogError(text.name), RaiseNotImplemented >>

\* the async defs of an emitted class, those of its nested classes included
RECURSIVE AsyncDefsIn(_)
AsyncDefsIn(stmts) ==
    IF stmts = << >> THEN << >>
    ELSE LET st == Head(stmts) IN
         (IF st.kind = "async def" THEN << st >>
          ELSE IF st.kind = "class" THEN AsyncDefsIn(st.body)
          ELSE << >>) \o AsyncDefsIn(Tail(stmts))

\* C1: the stubs of the primary declaration are exactly the methods marked
\* abstract, the interface's own and the category-wide ones, one stub for each
\* in the order of declaration; no other method is stubbed.
C1_StubbedIffAbstract ==
    pc = "done" =>
        NamesOf(sorted_code.abstract_methods)
            = NamesOf(SelectSeq(DeclaredMethods, IsAbstract))

\* C2: every method replace_async_func has processed, of the resource class, of
\* the base class or of a nested class at any depth, has the two-statement body:
\* the error log tagged with its own name, then raise NotImplementedError().
C2_CanonicalBody ==
    /\ \A k \in DOMAIN abstract_methods : CanonicalStub(abstract_methods[k])
    /\ \A k \in DOMAIN AsyncDefsIn(subclasses) : CanonicalStub(AsyncDefsIn(subclasses)[k])

C2_Witness ==
    /\ pc = "done"
    /\ abstract_methods # << >>
    /\ \E k \in DOMAIN subclasses : \E m \in DOMAIN subclasses[k].body :
          subclasses[k].body[m].kind = "class"
          /\ \E n \in DOMAIN subclasses[k].body[m].body :
                subclasses[k].body[m].body[n].kind = "async def"

\* the positions of the async defs of the resource class body, in order
RECURSIVE AsyncPositions(_, _)
AsyncPositions(body, k) ==
    IF k > Len(body) THEN << >>
    ELSE (IF IsAsync(body[k]) THEN << k >> ELSE << >>) \o AsyncPositions(body, k + 1)

NestedTypeNames == {SourceBody[k].name : k \in {n \in DOMAIN SourceBody : IsClass(SourceBody[n])}}

FieldBefore(p, name) ==
    \E q \in 1..(p - 1) : SourceBody[q].kind = "AnnAssign"
                          /\ SourceBody[q].target = Name(name)

\* C3 as claimed: a method of the resource class whose return type is the name
\* of a nested class of the resource class is emitted with the return type
\* resource_name.name.
C3_NestedTypeNameQualified ==
    pc = "done" =>
        LET at == AsyncPositions(SourceBody, 1) IN
        \A k \in DOMAIN at :
            LET m == SourceBody[at[k]] IN
            (m.returns.kind = "Name" /\ m.returns.id \in NestedTypeNames)
                => sorted_code.abstract_methods[k].returns
                       = resource_name \o "." \o m.returns.id

\* C3 amended: the return type is emitted as resource_name.name exactly when an
\* annotated assignment to that name stands before the method in the body of the
\* resource class; the name of a nested class is not eligible by itself and is
\* emitted as it was.
C3_OnlyFieldNamesQualified ==
    pc = "done" =>
        LET at == AsyncPositions(SourceBody, 1) IN
        \A k \in DOMAIN at :
            LET m == SourceBody[at[k]] IN
            m.returns.kind = "Name"
                => sorted_code.abstract_methods[k].returns
                       = IF FieldBefore(at[k], m.returns.id)
                         THEN resource_name \o "." \o m.returns.id
                         ELSE m.returns.id

C3_Witness ==
    /\ pc = "done"
    /\ LET at == AsyncPositions(SourceBody, 1) IN
       \E k \in DOMAIN at :
           LET m == SourceBody[at[k]] IN
           /\ m.returns.kind = "Name" /\ m.returns.id \in NestedTypeNames
           /\ ~FieldBefore(at[k], m.returns.id)
           /\ sorted_code.abstract_methods[k].returns = m.returns.id

\* C4: update_annotation leaves an annotation that already is an attribute
\* access as it is, and applying it to its own result, with the same nodes and
\* the same parent, changes nothing.
C4_Idempotent ==
    /\ (pc \in {"resolve_again", "resolved"} /\ call.annotation.kind = "Attribute")
           => ret = call.annotation
    /\ pc = "resolved" => ret2 = ret

C4_Witness ==
    /\ pc = "resolved"
    /\ call.annotation.kind = "Subscript"
    /\ ret # call.annotation
    /\ ret2 = ret

IsText(stmt) == stmt.kind = "class"

\* C5: in the text return_subclass returns, a class at any depth has one base,
\* the dotted chain of resource_name, the names of the classes around it from
\* the outermost inwards, and its own name.
RECURSIVE RebasedOnChain(_, _)
RebasedOnChain(text, chain) ==
    /\ text.bases = << chain \o "." \o text.name >>
    /\ \A k \in DOMAIN text.body :
          IsText(text.body[k]) => RebasedOnChain(text.body[k], chain \o "." \o text.name)

C5_NestedRebasing ==
    (pc = "returned" /\ ret.ok) => RebasedOnChain(ret.text, call.resource_name)

C5_Witness ==
    /\ pc = "returned" /\ ret.ok
    /\ \E k \in DOMAIN ret.text.body :
          /\ IsText(ret.text.body[k])
          /\ \E m \in DOMAIN ret.text.body[k].body : IsText(ret.text.body[k].body[m])

\* C6 as claimed: a class nested in the class given to return_subclass has the
\* base Outer.Inner, built from the name its parent is emitted under.
C6_ChildBasedOnEmittedName ==
    (pc = "returned" /\ ret.ok) =>
        /\ ret.text.bases = << call.resource_name \o "." \o ret.text.name >>
        /\ \A k \in DOMAIN ret.text.body :
              IsText(ret.text.body[k])
                  => ret.text.body[k].bases
                         = << ret.text.name \o "." \o ret.text.body[k].name >>

\* C6 amended: the outer class has the base resource_name.Outer, and a class
\* nested in it has the base resource_name.Outer.Inner: the base given to its
\* parent, a dot and its own name.
C6_ChildBasedOnParentPath ==
    (pc = "returned" /\ ret.ok) =>
        /\ ret.text.bases = << call.resource_name \o "." \o ret.text.name >>
        /\ \A k \in DOMAIN ret.text.body :
              IsText(ret.text.body[k])
                  => ret.text.body[k].bases
                         = << ret.text.bases[1] \o "." \o ret.text.body[k].name >>

C6_Witness ==
    /\ pc = "returned" /\ ret.ok
    /\ ret.text.name = "Pose"
    /\ \E k \in DOMAIN ret.text.body :
          /\ IsText(ret.text.body[k])
          /\ ret.text.body[k].name = "Inner"
          /\ ret.text.body[k].bases = << "Arm.Pose.Inner" >>
          /\ \E m \in DOMAIN ret.text.body[k].body :
                ret.text.body[k].body[m].kind = "async def"

\* the number of classes in a list of statements, nested ones included
RECURSIVE CountClasses(_)
CountClasses(stmts) ==
    IF stmts = << >> THEN 0
    ELSE (IF Head(stmts).kind \in {"ClassDef", "class"}
          THEN 1 + CountClasses(Head(stmts).body) ELSE 0) + CountClasses(Tail(stmts))

\* the names of the classes of a list of statements with their nesting
RECURSIVE Nesting(_)
Nesting(stmts) ==
    LET classes == SelectSeq(stmts, LAMBDA st : st.kind \in {"ClassDef", "class"})
    IN  [k \in DOMAIN classes |->
            [name |-> classes[k].name, nested |-> Nesting(classes[k].body)]]

AllPruned(body) ==
    \A k \in DOMAIN body :
        \/ body[k].kind \in {"Expr", "AnnAssign"}
        \/ body[k].kind = "FunctionDef" /\ body[k].name = "__init__"

\* C8: in the text return_subclass returns no class has an empty body, the
\* nested ones at any depth included, and a class all of whose statements were
\* pruned has the body pass.
RECURSIVE NonEmptyBodies(_, _)
NonEmptyBodies(source, text) ==
    LET sourceClasses == SelectSeq(source.body, IsClass)
        textClasses == SelectSeq(text.body, IsText)
    IN  /\ text.body # << >>
        /\ AllPruned(source.body) => text.body = << Pass >>
        /\ Len(textClasses) = Len(sourceClasses)
        /\ \A k \in DOMAIN sourceClasses : NonEmptyBodies(sourceClasses[k], textClasses[k])

C8_NonEmptyBodies ==
    (pc = "returned" /\ ret.ok) => NonEmptyBodies(call.stmt, ret.text)

C8_Witness ==
    /\ pc = "returned" /\ ret.ok
    /\ \E k \in DOMAIN ret.text.body :
          /\ IsText(ret.text.body[k])
          /\ ret.text.body[k].body = << Pass >>

\* the identities (module, name, alias) an import line brings in
Identities(line) ==
    LET form == ParseImport(line)
    IN  {<< IF form.kind = "Import" THEN "" ELSE form.module,
            form.names[k].name, form.names[k].asname >> : k \in DOMAIN form.names}

f_name(req) == req.mod_name \o "/src/models/resource.py"

\* the content of a file just created or truncated
Empty == [content |-> "empty"]

\* the content of a file in which the texts of two writers are mixed
Garbled == [content |-> "garbled"]

IsDocument(c) == c # Empty /\ c # Garbled

\* the content after text was written at offset 0 over content: text itself, or
\* text followed by what was left of a longer content
Written(content, text) ==
    IF content = Empty \/ content = text THEN {text} ELSE {text, Garbled}

\* the requests of the two runs
ParRequests == {r \in EnvRequests : r.namespace = "acme"}

\* the text a run has built for its request when it comes to line 246
BuiltText(req) ==
    ResourceFileText(req, ResourceNameOf(req.resource_subtype),
                     << import_from_line(DoCommandImports[2]) >>, << >>, << >>)

InitPar ==
    /\ pc = "parallel"
    /\ \E reqs \in [1..2 -> ParRequests] :
          runs = [r \in 1..2 |->
                     [pc |-> "open", request |-> reqs[r], resource_file |-> BuiltText(reqs[r]),
                      f |-> 0, sorted_code |-> None]]
    /\ disk = [path |-> [p \in {f_name(r) : r \in ParRequests} |-> 0], inode |-> << >>]
    /\ call = None /\ ret = None /\ ret2 = None
    /\ Idle /\ NoWalk /\ NoSync

\* with open(f_name, "w+") as f: the file is created, or truncated when it is there
OpenScratch(r) ==
    /\ runs[r].pc = "open"
    /\ LET p == f_name(runs[r].request)
           n == disk.path[p]
       IN  IF n = 0
           THEN /\ disk' = [path |-> [disk.path EXCEPT ![p] = Len(disk.inode) + 1],
                            inode |-> Append(disk.inode, Empty)]
                /\ runs' = [runs EXCEPT ![r].pc = "write", ![r].f = Len(disk.inode) + 1]
           ELSE /\ disk' = [disk EXCEPT !.inode[n] = Empty]
                /\ runs' = [runs EXCEPT ![r].pc = "write", ![r].f = n]
    /\ UNCHANGED <<pc, call, ret, ret2, mainVars>>

\* f.write(resource_file); f.seek(0): the text reaches the file at offset 0
WriteScratch(r) ==
    /\ runs[r].pc = "write"
    /\ \E c \in Written(disk.inode[runs[r].f], runs[r].resource_file) :
          disk' = [disk EXCEPT !.inode[runs[r].f] = c]
    /\ runs' = [runs EXCEPT ![r].pc = "black"]
    /\ UNCHANGED <<pc, call, ret, ret2, mainVars>>

\* subprocess.check_call(black f_name): black rewrites the file the path names,
\* or exits with an error (always when there is no such file or no text in it)
\* and CalledProcessError skips the reading back
BlackScratch(r) ==
    /\ runs[r].pc = "black"
    /\ LET n == disk.path[f_name(runs[r].request)] IN
       \/ /\ n # 0 /\ disk.inode[n] # Garbled
          /\ disk' = [disk EXCEPT !.inode[n] =
                         IF @ = Empty THEN @ ELSE [@ EXCEPT !.formatted = TRUE]]
          /\ runs' = [runs EXCEPT ![r].pc = "read"]
       \/ /\ disk' = disk
          /\ runs' = [runs EXCEPT ![r].pc = "remove"]
    /\ UNCHANGED <<pc, call, ret, ret2, mainVars>>

\* f.seek(0); resource_file = f.read()
ReadBack(r) ==
    /\ runs[r].pc = "read"
    /\ runs' = [runs EXCEPT ![r].pc = "remove", ![r].resource_file = disk.inode[runs[r].f]]
    /\ UNCHANGED <<pc, call, ret, ret2, mainVars, disk>>

\* os.remove(f_name): FileNotFoundError when the path names no file
RemoveScratch(r) ==
    /\ runs[r].pc = "remove"
    /\ LET p == f_name(runs[r].request) IN
       IF disk.path[p] = 0
       THEN /\ runs' = [runs EXCEPT ![r].pc = "raised"]
            /\ disk' = disk
       ELSE /\ runs' = [runs EXCEPT ![r].pc = "sort"]
            /\ disk' = [disk EXCEPT !.path[p] = 0]
    /\ UNCHANGED <<pc, call, ret, ret2, mainVars>>

\* sorted_code = isort.code(resource_file); return sorted_code
IsortReturn(r) ==
    /\ runs[r].pc = "sort"
    /\ runs' = [runs EXCEPT ![r].pc = "done",
                            ![r].sorted_code = IF IsDocument(runs[r].resource_file)
                                               THEN isort_code(runs[r].resource_file)
                                               ELSE runs[r].resource_file]
    /\ UNCHANGED <<pc, call, ret, ret2, mainVars, disk>>

NextPar ==
    \/ \E r \in DOMAIN runs : OpenScratch(r)
    \/ \E r \in DOMAIN runs : WriteScratch(r)
    \/ \E r \in DOMAIN runs : BlackScratch(r)
    \/ \E r \in DOMAIN runs : ReadBack(r)
    \/ \E r \in DOMAIN runs : RemoveScratch(r)
    \/ \E r \in DOMAIN runs : IsortReturn(r)

SpecPar == InitPar /\ [][NextPar]_vars

\* C11: a run in an environment where a reformatting collaborator is missing
\* or fails, black or isort, never aborts.
C11_FormatterFailureNotFatal ==
    ~(pc = "raised" /\ "isort" \in files.missing)

\* a class of the resolved resource name stands in the declaring module
HasResourceClass ==
    \E k \in DOMAIN files.module :
        /\ files.module[k].kind = "ClassDef"
        /\ files.module[k].name = ResourceNameOf(request.resource_subtype)

\* C14: when the declaring module cannot be loaded, or declares no class of the
\* resolved resource name, the run returns no document.
C14_InterfaceNotFoundFatal ==
    ("module" \in files.missing \/ ~HasResourceClass) => sorted_code = None

\* main is at a nested class of the resource class
AtNestedClass ==
    /\ i \in DOMAIN tree /\ tree[i].kind = "ClassDef"
    /\ j \in DOMAIN tree[i].body /\ tree[i].body[j].kind = "ClassDef"

\* C15: a nested class whose body cannot be processed does not end the run: the
\* run never aborts at a nested class.
C15_SubtreeIsolation ==
    ~(pc = "raised" /\ files.missing = {} /\ AtNestedClass)

\* C12: update_annotation returns a Name whose id is not in nodes as it is, the
\* same Name with the same id, and returns.
C12_UnmatchedNameVerbatim ==
    (pc \in {"resolve_again", "resolved"}
     /\ call.annotation.kind = "Name" /\ call.annotation.id \notin call.nodes)
        => ret = call.annotation /\ ret.kind = "Name"

C12_Witness ==
    /\ pc = "resolved"
    /\ call.annotation = Name("List")
    /\ call.nodes = {"Pose"}
    /\ ret = Name("List")

\* what main and the functions it calls write to a log: they hold no logging
\* call, no warning and no print before the return of main
diagnostics == << >>

\* the names the collected imports bring in
ImportedSymbols ==
    UNION {{IF id[3] # "" THEN id[3] ELSE id[2] : id \in Identities(imports[k])} :
           k \in DOMAIN imports}

\* a method of the resource class whose return type is a Name that is neither in
\* nodes when the method is met nor brought in by the collected imports
UnresolvedReferenceMet ==
    LET at == AsyncPositions(SourceBody, 1) IN
    \E k \in DOMAIN at :
        LET m == SourceBody[at[k]] IN
        /\ m.returns.kind = "Name"
        /\ ~FieldBefore(at[k], m.returns.id)
        /\ m.returns.id \notin ImportedSymbols

\* C13: a run that met a Name that is neither local nor imported has recorded a
\* warning for it when it completes.
C13_WarningRecorded ==
    (pc = "done" /\ UnresolvedReferenceMet) => diagnostics # << >>

\* what a run returns when it runs alone: its text, reformatted by black or not,
\* after isort.code
ReturnedAlone(req) ==
    {isort_code(BuiltText(req)), isort_code([BuiltText(req) EXCEPT !.formatted = TRUE])}

\* C16: of two runs in parallel neither fails, and each returns the document it
\* returns when it runs alone, whatever the interleaving of their steps.
C16_RunsIndependent ==
    \A r \in DOMAIN runs :
        /\ runs[r].pc # "raised"
        /\ runs[r].pc = "done" => runs[r].sorted_code \in ReturnedAlone(runs[r].request)

\* C17: the parsed modules stay as they were parsed: no step of the run changes
\* a method, a nested class or an annotation of tree or of the base module's
\* tree.
C17_InputReadOnly ==
    /\ tree # << >> => tree = files.module
    /\ type_tree # << >> => type_tree = files.type_module

\* name, calling convention, parameters and defaults of the text of a method
Signature(text) ==
    [name |-> text.name, kind |-> text.kind,
     args |-> [k \in DOMAIN text.args |-> text.args[k].arg],
     kwonlyargs |-> [k \in DOMAIN text.kwonlyargs |-> text.kwonlyargs[k].arg],
     defaults |-> text.defaults, kw_defaults |-> text.kw_defaults]

\* the async defs main stubs, as their source reads: those of the resource class,
\* then those of the base classes
SourceAsync ==
    LET defs == SelectSeq(SourceBody, IsAsync)
                \o SelectSeq(BodiesOf(files.type_module), IsAsync)
    IN  [k \in DOMAIN defs |-> unparse(defs[k])]

\* the async defs of the nested classes of the resource class, as their source
\* reads
SourceNestedAsync ==
    LET classes == SelectSeq(SourceBody, IsClass)
    IN  AsyncDefsIn([k \in DOMAIN classes |-> unparse(classes[k])])

\* C18: a stub has the name, the async calling convention, the parameters in
\* number, names and order, and the defaults of the method it was made from.
C18_SignatureKept ==
    /\ \A k \in DOMAIN abstract_methods :
          Signature(abstract_methods[k]) = Signature(SourceAsync[k])
    /\ \A k \in DOMAIN AsyncDefsIn(subclasses) :
          Signature(AsyncDefsIn(subclasses)[k]) = Signature(SourceNestedAsync[k])

C18_Witness ==
    /\ pc = "done"
    /\ \E k \in DOMAIN sorted_code.abstract_methods :
          LET stub == sorted_code.abstract_methods[k] IN
          /\ stub.name = "move_to" /\ stub.kind = "async def"
          /\ stub.defaults = << "False" >> /\ stub.kw_defaults = << "None" >>
          /\ stub.args[2] = [arg |-> "pose", annotation |-> "Arm.Pose"]
          /\ stub.returns = "Arm.Pose"
    /\ AsyncDefsIn(sorted_code.subclasses) # << >>

\* C19: the returned document holds the three entrypoints new, validate_config
\* and reconfigure, whatever the modules and the request.
C19_ThreeEntrypoints ==
    pc = "done" => {"new", "validate_config", "reconfigure"} \subseteq Range(sorted_code.lifecycle)

\* the nested classes and the stubs main collects from the body of the resource
\* class, computed from the source in one pass
RECURSIVE CollectedFrom(_, _, _, _, _)
CollectedFrom(rname, body, nds, subs, methods) ==
    IF body = << >> THEN [subclasses |-> subs, abstract_methods |-> methods]
    ELSE LET cstmt == Head(body) IN
         IF cstmt.kind = "ClassDef"
         THEN CollectedFrom(rname, Tail(body), nds,
                            Append(subs, return_subclass(rname, cstmt).text), methods)
         ELSE IF cstmt.kind = "AnnAssign"
         THEN CollectedFrom(rname, Tail(body), nds \cup {cstmt.target.id}, subs, methods)
         ELSE IF cstmt.kind = "AsyncFunctionDef"
         THEN CollectedFrom(rname, Tail(body), nds, subs,
                            Append(methods, unparse(replace_async_func(rname, cstmt, nds, ""))))
         ELSE CollectedFrom(rname, Tail(body), nds, subs, methods)

\* the import lines main collects, computed from the sources in one pass
RECURSIVE SourceImportLines(_)
SourceImportLines(stmts) ==
    IF stmts = << >> THEN << >>
    ELSE LET stmt == Head(stmts) IN
         (IF stmt.kind = "Import" THEN import_lines(stmt.names)
          ELSE IF stmt.kind = "ImportFrom" /\ stmt.module # ""
                  /\ stmt.module \notin modules_to_ignore
          THEN << import_from_line(stmt) >>
          ELSE << >>) \o SourceImportLines(Tail(stmts))

RECURSIVE BaseImportLines(_)
BaseImportLines(stmts) ==
    IF stmts = << >> THEN << >>
    ELSE (IF IsAsync(Head(stmts)) THEN BaseImports(Head(stmts).name) ELSE << >>)
         \o BaseImportLines(Tail(stmts))

\* the document main returns for the sources of files and the request req
DocumentFor(req) ==
    LET rname == ResourceNameOf(req.resource_subtype)
        own == CollectedFrom(rname, SourceBody, {}, << >>, << >>)
        base == SelectSeq(BodiesOf(files.type_module), IsAsync)
    IN  isort_code(ResourceFileText(
            req, rname,
            SourceImportLines(files.module) \o BaseImportLines(BodiesOf(files.type_module)),
            own.subclasses,
            own.abstract_methods
                \o [k \in DOMAIN base |-> unparse(replace_async_func("", base[k], {}, ""))]))

\* C20: the stubs, the nested classes and the imports of the returned document
\* are those of the document returned for any other request for the same
\* resource_type and resource_subtype, whatever its namespace, mod_name and
\* model_name.
C20_NamingNoninterference ==
    pc = "done" =>
        \A other \in {r \in EnvRequests : /\ r.resource_type = request.resource_type
                                          /\ r.resource_subtype = request.resource_subtype} :
            /\ sorted_code.abstract_methods = DocumentFor(other).abstract_methods
            /\ sorted_code.subclasses = DocumentFor(other).subclasses
            /\ sorted_code.import_block = DocumentFor(other).import_block

C20_Witness ==
    /\ pc = "done"
    /\ sorted_code.subclasses # << >> /\ sorted_code.abstract_methods # << >>
    /\ request.namespace = "viam" /\ request.mod_name = "arms"
    /\ request.model_name = "fake arm"
    /\ sorted_code.class_name = "FakeArm"
    /\ DocumentFor([request EXCEPT !.namespace = "acme", !.mod_name = "my-module",
                                   !.model_name = "my-arm"]).class_name = "MyArm"

\* the type arguments of a subscript: the elements of a tuple slice, or the slice
TypeArguments(annotation) ==
    IF annotation.slice.kind = "Tuple" THEN annotation.slice.elts ELSE << annotation.slice >>

\* no type argument, at any depth and position, is still a Name of nds
RECURSIVE ArgumentsResolved(_, _)
ArgumentsResolved(annotation, nds) ==
    annotation.kind = "Subscript" =>
        \A k \in DOMAIN TypeArguments(annotation) :
            LET arg == TypeArguments(annotation)[k] IN
            /\ ~(arg.kind = "Name" /\ arg.id \in nds)
            /\ ArgumentsResolved(arg, nds)

\* C21: in what update_annotation returns for a subscript, every type argument
\* that was a Name in nodes has become an attribute access, at any position and
\* at any depth, with one argument or with several.
C21_EveryArgumentResolved ==
    pc \in {"resolve_again", "resolved"} => ArgumentsResolved(ret, call.nodes)

\* the owner update_annotation qualifies with
Owner == IF call.parent # "" THEN call.parent ELSE call.resource_name

\* C22: in what update_annotation returns for a subscript whose subscripted name
\* is in nodes, that name has become the attribute access owner.name.
C22_OuterNameResolved ==
    (pc \in {"resolve_again", "resolved"}
     /\ call.annotation.kind = "Subscript"
     /\ call.annotation.value.kind = "Name" /\ call.annotation.value.id \in call.nodes)
        => ret.value = return_attribute(Owner, call.annotation.value.id)

\* the names the body of the resource class declares as fields
FieldNames ==
    {SourceBody[q].target.id :
        q \in {n \in DOMAIN SourceBody : SourceBody[n].kind = "AnnAssign"
                                          /\ SourceBody[n].target.kind = "Name"}}

\* annotation names a field of the resource class
NamesField(annotation) == annotation.kind = "Name" /\ annotation.id \in FieldNames

\* C23: in every stub made from a method of the resource class, the annotation of
\* every parameter, positional or keyword-only, and the return annotation that is
\* the name of a field of the class reads resource_name.name.
C23_EveryParameterQualified ==
    pc = "done" =>
        LET at == AsyncPositions(SourceBody, 1) IN
        \A k \in DOMAIN at :
            LET m == SourceBody[at[k]]
                stub == sorted_code.abstract_methods[k]
                src == m.args.args \o m.args.kwonlyargs
                out == stub.args \o stub.kwonlyargs
            IN  /\ \A p \in DOMAIN src :
                      NamesField(src[p].annotation)
                          => out[p].annotation = resource_name \o "." \o src[p].annotation.id
                /\ NamesField(m.returns)
                      => stub.returns = resource_name \o "." \o m.returns.id

\* C24: a method of the resource class whose return annotation is the name of a
\* field of the class is emitted with the return annotation resource_name.name,
\* whether the field is declared before the method or after it.
C24_OrderIndependent ==
    pc = "done" =>
        LET at == AsyncPositions(SourceBody, 1) IN
        \A k \in DOMAIN at :
            NamesField(SourceBody[at[k]].returns)
                => sorted_code.abstract_methods[k].returns
                       = resource_name \o "." \o SourceBody[at[k]].returns.id

\* the statements of a class body parse_subclass does not put on nodes_to_remove:
\* the nested classes and the methods other than __init__
Kept(body) ==
    SelectSeq(body, LAMBDA st : ~(\/ st.kind \in {"Expr", "AnnAssign"}
                                  \/ st.kind = "FunctionDef" /\ st.name = "__init__"))

\* kind of the text of a statement
TextKind(stmt) ==
    CASE stmt.kind = "ClassDef" -> "class"
      [] stmt.kind = "AsyncFunctionDef" -> "async def"
      [] stmt.kind = "FunctionDef" -> "def"
      [] OTHER -> stmt.kind

RECURSIVE PrunedAtEveryDepth(_, _)
PrunedAtEveryDepth(source, text) ==
    LET kept == Kept(source.body)
        emitted == IF text.body = << Pass >> THEN << >> ELSE text.body
    IN  /\ \A k \in DOMAIN text.body :
              /\ text.body[k].kind \notin {"Expr", "AnnAssign"}
              /\ ~(text.body[k].kind = "def" /\ text.body[k].name = "__init__")
        /\ Len(emitted) = Len(kept)
        /\ \A k \in DOMAIN kept :
              /\ emitted[k].kind = TextKind(kept[k])
              /\ emitted[k].name = kept[k].name
              /\ IsClass(kept[k]) => PrunedAtEveryDepth(kept[k], emitted[k])

\* C25: in the text return_subclass returns, the body of a class at any depth
\* holds no expression statement (a docstring), no annotated assignment and no
\* __init__, and holds every nested class and every other method of the source
\* body, in the order of the source.
C25_PrunedAtEveryDepth ==
    (pc = "returned" /\ ret.ok) => PrunedAtEveryDepth(call.stmt, ret.text)

C25_Witness ==
    /\ pc = "returned" /\ ret.ok
    /\ \E k \in DOMAIN call.stmt.body :
          /\ IsClass(call.stmt.body[k])
          /\ Kept(call.stmt.body[k].body) # << >>
          /\ Kept(call.stmt.body[k].body) # call.stmt.body[k].body

(***************************************************************************)
(* parse_subclass step by step: one frame for each call in progress, one   *)
(* step for each statement its loop looks at.  A frame holds the class the *)
(* call was given (changed in place), the position of that class in the    *)
(* tree, and the locals of the call.                                       *)
(***************************************************************************)
\* A plausible slip: the test for a nested class never succeeds.
IsNestedType_never(cstmt) == FALSE

\* isinstance(cstmt, ast.ClassDef)
IsNestedType(cstmt) == cstmt.kind = "ClassDef"

\* the frame of a call of parse_subclass after its first four statements
Frame(rname, stmt, parent, path) ==
    [stmt |-> rebase(rname, stmt, parent), path |-> path, k |-> 1,
     nodes |-> {}, nodes_to_remove |-> {}]

Top == stack[Len(stack)]

AtStmt == pc = "walk" /\ Top.k <= Len(Top.stmt.body)

\* the stack with frame on top and its loop moved to the next statement
Advanced(frame) == [stack EXCEPT ![Len(stack)] = [frame EXCEPT !.k = @ + 1]]

InitWalk ==
    /\ pc = "call"
    /\ call \in [resource_name : {"Arm"}, stmt : NestedClasses]
    /\ ret = None /\ ret2 = None
    /\ Idle /\ NoRuns /\ NoWalk /\ NoSync

\* return_subclass calls parse_subclass(resource_name, stmt, parent)
EnterSubclass ==
    /\ pc = "call"
    /\ stack' = << Frame(call.resource_name, call.stmt, "", << >>) >>
    /\ visited' = << << >> >>
    /\ pc' = "walk"
    /\ UNCHANGED <<call, ret, ret2, request, files, resource_name, tree, type_tree, i, j,
                   nodes, imports, subclasses, abstract_methods, resource_file, sorted_code,
                   parVars, syncVars>>

\* an expression statement or __init__: nodes_to_remove.append(cstmt)
MarkRemoved ==
    /\ AtStmt
    /\ LET cstmt == Top.stmt.body[Top.k] IN
          \/ cstmt.kind = "Expr"
          \/ cstmt.kind = "FunctionDef" /\ cstmt.name = "__init__"
    /\ stack' = Advanced([Top EXCEPT !.nodes_to_remove = @ \cup {Top.k}])
    /\ UNCHANGED <<pc, visited>>
    /\ UNCHANGED <<call, ret, ret2, request, files, resource_name, tree, type_tree, i, j,
                   nodes, imports, subclasses, abstract_methods, resource_file, sorted_code,
                   parVars, syncVars>>

\* an annotated assignment: nodes.add(cstmt.target.id), which raises for a
\* target without id, and nodes_to_remove.append(cstmt)
CollectField ==
    /\ AtStmt
    /\ Top.stmt.body[Top.k].kind = "AnnAssign"
    /\ LET cstmt == Top.stmt.body[Top.k] IN
          IF cstmt.target.kind # "Name"
          THEN pc' = "raised" /\ stack' = << >>
          ELSE /\ pc' = pc
               /\ stack' = Advanced([Top EXCEPT !.nodes = @ \cup {cstmt.target.id},
                                                !.nodes_to_remove = @ \cup {Top.k}])
    /\ UNCHANGED visited
    /\ UNCHANGED <<call, ret, ret2, request, files, resource_name, tree, type_tree, i, j,
                   nodes, imports, subclasses, abstract_methods, resource_file, sorted_code,
                   parVars, syncVars>>

\* a nested class: parse_subclass(resource_name, cstmt, stmt.bases[0].id)
Recurse ==
    /\ AtStmt
    /\ IsNestedType(Top.stmt.body[Top.k])
    /\ stack' = Append(stack, Frame(call.resource_name, Top.stmt.body[Top.k],
                                    child_parent(Top.stmt), Append(Top.path, Top.k)))
    /\ visited' = Append(visited, Append(Top.path, Top.k))
    /\ UNCHANGED pc
    /\ UNCHANGED <<call, ret, ret2, request, files, resource_name, tree, type_tree, i, j,
                   nodes, imports, subclasses, abstract_methods, resource_file, sorted_code,
                   parVars, syncVars>>

\* an async def: replace_async_func(resource_name, cstmt, nodes, stmt.bases[0].id)
StubMethod ==
    /\ AtStmt
    /\ Top.stmt.body[Top.k].kind = "AsyncFunctionDef"
    /\ stack' = Advanced([Top EXCEPT !.stmt.body[Top.k] =
                             replace_async_func(call.resource_name, @, Top.nodes,
                                                child_parent(Top.stmt))])
    /\ UNCHANGED <<pc, visited>>
    /\ UNCHANGED <<call, ret, ret2, request, files, resource_name, tree, type_tree, i, j,
                   nodes, imports, subclasses, abstract_methods, resource_file, sorted_code,
                   parVars, syncVars>>

\* any other statement: no branch of the loop is taken
PassOver ==
    /\ AtStmt
    /\ LET cstmt == Top.stmt.body[Top.k] IN
          /\ cstmt.kind \notin {"Expr", "AnnAssign", "AsyncFunctionDef"}
          /\ ~(cstmt.kind = "FunctionDef" /\ cstmt.name = "__init__")
          /\ ~IsNestedType(cstmt)
    /\ stack' = Advanced(Top)
    /\ UNCHANGED <<pc, visited>>
    /\ UNCHANGED <<call, ret, ret2, request, files, resource_name, tree, type_tree, i, j,
                   nodes, imports, subclasses, abstract_methods, resource_file, sorted_code,
                   parVars, syncVars>>

\* the loop is over: the nodes of nodes_to_remove are removed, an empty body
\* becomes [Pass] and the call returns, to the loop of the class around it or to
\* return_subclass, which returns the text of the class
Unwind ==
    /\ pc = "walk" /\ Top.k > Len(Top.stmt.body)
    /\ LET finished == [Top.stmt EXCEPT !.body = prune(@, Top.nodes_to_remove)]
           caller == stack[Len(stack) - 1]
       IN  IF Len(stack) = 1
           THEN /\ stack' = << >>
                /\ ret' = [ok |-> TRUE, stmt |-> finished, text |-> unparse(finished)]
                /\ pc' = "returned"
           ELSE /\ stack' = [SubSeq(stack, 1, Len(stack) - 1) EXCEPT ![Len(stack) - 1] =
                                [caller EXCEPT !.stmt.body[caller.k] = finished,
                                               !.k = @ + 1]]
                /\ UNCHANGED <<ret, pc>>
    /\ UNCHANGED visited
    /\ UNCHANGED <<call, ret2, request, files, resource_name, tree, type_tree, i, j,
                   nodes, imports, subclasses, abstract_methods, resource_file, sorted_code,
                   parVars, syncVars>>

NextWalk ==
    \/ EnterSubclass
    \/ MarkRemoved
    \/ CollectField
    \/ Recurse
    \/ StubMethod
    \/ PassOver
    \/ Unwind

SpecWalk == InitWalk /\ [][NextWalk]_vars

\* The interpreter runs one thread and executes the next statement of a call in
\* progress: a step that can be taken is taken.
SpecWalkFair == SpecWalk /\ WF_vars(NextWalk)

\* the positions of the classes of a class body, nested ones included, each as
\* the path of indexes that leads to it
RECURSIVE ClassPaths(_, _)
ClassPaths(stmt, path) ==
    {path} \cup UNION {ClassPaths(stmt.body[k], Append(path, k)) :
                          k \in {n \in DOMAIN stmt.body : IsClass(stmt.body[n])}}

\* parse_subclass was called once on every class of the tree
VisitedOnce ==
    /\ {visited[k] : k \in DOMAIN visited} = ClassPaths(call.stmt, << >>)
    /\ \A k, m \in DOMAIN visited : visited[k] = visited[m] => k = m

MaxPkgs == 3

\* the largest number of test files of a package
MaxSize == 2

\* the largest nbins
MaxBins == 3

PLACEMENT_RULES == [p \in {"./pointcloud"} |-> "./components/camera/videosource"]

\* what go list can name: the packages of the placement rules and others
PackageNames ==
    {"./pointcloud", "./components/camera/videosource"}
        \cup {"./pkg" \o ToString(k) : k \in 1..(MaxPkgs - 2)}

\* the lists of up to MaxPkgs SizePairs of different packages with a size in S
RECURSIVE SizeListsOver(_, _, _)
SizeListsOver(names, S, n) ==
    IF n = 0 THEN {<< >>}
    ELSE {<< >>} \cup UNION {{<< << p, size >> >> \o rest :
                                 size \in S, rest \in SizeListsOver(names \ {p}, S, n - 1)} :
                             p \in names}

RECURSIVE SumSizes(_)
SumSizes(sizes) == IF sizes = << >> THEN 0 ELSE Head(sizes)[2] + SumSizes(Tail(sizes))

RECURSIVE Flatten(_)
Flatten(lists) == IF lists = << >> THEN << >> ELSE Head(lists) \o Flatten(Tail(lists))

\* A plausible slip: the slice ends one package early.
BinOf_short(sizes, first, last) ==
    [k \in 1..(IF last > first THEN last - first ELSE 0) |-> sizes[first + k - 1][1]]

\* [x for x, _ in sizes[i:j + 1]], with first = i + 1 and last = j + 1 counted from 1
BinOf(sizes, first, last) ==
    [k \in 1..(IF last >= first THEN last - first + 1 ELSE 0) |-> sizes[first + k - 1][1]]

\* the loop of split_bins at j = last - 1 with i = first - 1, accum and ret
RECURSIVE split_loop(_, _, _, _, _, _)
split_loop(sizes, bin_size, last, first, accum, bins) ==
    IF last > Len(sizes) THEN [i |-> first, ret |-> bins]
    ELSE IF accum + sizes[last][2] >= bin_size
         THEN split_loop(sizes, bin_size, last + 1, last + 1, 0,
                         Append(bins, BinOf(sizes, first, last)))
         ELSE split_loop(sizes, bin_size, last + 1, first, accum + sizes[last][2], bins)

\* split_bins: the bins, and the message of the assertion that failed ("" when
\* none did)
split_bins(sizes, bin_size) ==
    LET looped == split_loop(sizes, bin_size, 1, 1, 0, << >>)
        bins == IF looped.i <= Len(sizes)
                THEN Append(looped.ret, BinOf(sizes, looped.i, Len(sizes)))
                ELSE looped.ret
        packed == Flatten(bins)
    IN  [ret |-> bins,
         raised |-> IF Len(packed) # Len(sizes) THEN "split_bins lost values"
                    ELSE IF Cardinality({packed[k] : k \in DOMAIN packed})
                            # Cardinality({sizes[k] : k \in DOMAIN sizes})
                    THEN "split_bins duplicated or lost values"
                    ELSE ""]

\* keyed_index with the key item[0], counted from 1; 0 when it raises ValueError
keyed_index(sequence, value) ==
    IF \E k \in DOMAIN sequence : sequence[k][1] = value
    THEN CHOOSE k \in DOMAIN sequence :
            /\ sequence[k][1] = value
            /\ \A m \in 1..(k - 1) : sequence[m][1] # value
    ELSE 0

\* list.insert(index, item) with index counted from 0
Insert(sequence, index, item) ==
    SubSeq(sequence, 1, index) \o << item >> \o SubSeq(sequence, index + 1, Len(sequence))

\* the loop of apply_placement over moved
RECURSIVE place(_, _)
place(unmoved, moved) ==
    IF moved = << >> THEN [ok |-> TRUE, sizes |-> unmoved]
    ELSE LET item == Head(moved)
             at == keyed_index(unmoved, PLACEMENT_RULES[item[1]])
         IN  IF at = 0 THEN [ok |-> FALSE, sizes |-> unmoved]
             ELSE place(Insert(unmoved, at, item), Tail(moved))

\* apply_placement: the list returned, or ok FALSE when keyed_index raised
apply_placement(sizes) ==
    place(SelectSeq(sizes, LAMBDA item : item[1] \notin DOMAIN PLACEMENT_RULES),
          SelectSeq(sizes, LAMBDA item : item[1] \in DOMAIN PLACEMENT_RULES))

(***************************************************************************)
(* split_bins applied to a list of sizes and a bin size                    *)
(***************************************************************************)
InitSplit ==
    /\ pc = "split_bins"
    /\ call \in [sizes : SizeListsOver(PackageNames, 0..MaxSize, MaxPkgs),
                 bin_size : 0..(MaxPkgs * MaxSize + 1)]
    /\ ret = None /\ ret2 = None
    /\ Idle /\ NoRuns /\ NoWalk /\ NoSync

CallSplitBins ==
    /\ pc = "split_bins"
    /\ ret' = split_bins(call.sizes, call.bin_size)
    /\ pc' = "bins_returned"
    /\ UNCHANGED <<call, ret2, mainVars, parVars>>

NextSplit == CallSplitBins

SpecSplit == InitSplit /\ [][NextSplit]_vars

(***************************************************************************)
(* main of splitter.py.  call holds the arguments and the sizes read from  *)
(* the input, ret the locals of main.                                      *)
(***************************************************************************)
InitSplitter ==
    /\ pc = "splitter"
    /\ \E nbins \in 1..MaxBins :
          call \in [index : 0..nbins, nbins : {nbins}, fail_empty : BOOLEAN,
                    sizes : SizeListsOver(PackageNames, 1..MaxSize, MaxPkgs)]
    /\ ret = None /\ ret2 = None
    /\ Idle /\ NoRuns /\ NoWalk /\ NoSync

\* if args.index < 0 or args.index >= args.nbins: raise ValueError
CheckIndex ==
    /\ pc = "splitter"
    /\ pc' = IF call.index >= call.nbins THEN "raised" ELSE "read"
    /\ UNCHANGED <<call, ret, ret2, mainVars, parVars>>

\* the sizes are read; without any, main returns, or raises with --fail-empty
ReadSizes ==
    /\ pc = "read"
    /\ ret' = [sizes |-> call.sizes, bin_size |-> 0, splits |-> << >>, run |-> << >>]
    /\ pc' = IF call.sizes # << >> THEN "bin_size"
             ELSE IF call.fail_empty THEN "raised" ELSE "quit"
    /\ UNCHANGED <<call, ret2, mainVars, parVars>>

\* bin_size = int(sum(size for _, size in sizes) / args.nbins)
ComputeBinSize ==
    /\ pc = "bin_size"
    /\ ret' = [ret EXCEPT !.bin_size = SumSizes(ret.sizes) \div call.nbins]
    /\ pc' = "placement"
    /\ UNCHANGED <<call, ret2, mainVars, parVars>>

\* sizes = apply_placement(sizes)
ApplyPlacement ==
    /\ pc = "placement"
    /\ LET placed == apply_placement(ret.sizes) IN
          IF placed.ok
          THEN ret' = [ret EXCEPT !.sizes = placed.sizes] /\ pc' = "split"
          ELSE ret' = ret /\ pc' = "raised"
    /\ UNCHANGED <<call, ret2, mainVars, parVars>>

\* splits = split_bins(sizes, bin_size)
SplitBins ==
    /\ pc = "split"
    /\ LET split == split_bins(ret.sizes, ret.bin_size) IN
          IF split.raised = ""
          THEN ret' = [ret EXCEPT !.splits = split.ret] /\ pc' = "assert"
          ELSE ret' = ret /\ pc' = "raised"
    /\ UNCHANGED <<call, ret2, mainVars, parVars>>

\* assert len(splits) == args.nbins
AssertBins ==
    /\ pc = "assert"
    /\ pc' = IF Len(ret.splits) = call.nbins THEN "run" ELSE "raised"
    /\ UNCHANGED <<call, ret, ret2, mainVars, parVars>>

\* the tests of splits[args.index] are run
RunBin ==
    /\ pc = "run"
    /\ ret' = [ret EXCEPT !.run = ret.splits[call.index + 1]]
    /\ pc' = "ran"
    /\ UNCHANGED <<call, ret2, mainVars, parVars>>

NextSplitter ==
    \/ CheckIndex
    \/ ReadSizes
    \/ ComputeBinSize
    \/ ApplyPlacement
    \/ SplitBins
    \/ AssertBins
    \/ RunBin

SpecSplitter == InitSplitter /\ [][NextSplitter]_vars

\* the packages of a list of sizes, in order
PackagesOf(sizes) == [k \in DOMAIN sizes |-> sizes[k][1]]

\* C27: for every list of sizes of different packages and every bin_size, the
\* bins split_bins returns, put end to end, are the packages of the list in the
\* order of the list, and neither assertion of split_bins fails.
C27_NothingLostOrDuplicated ==
    pc = "bins_returned" =>
        /\ ret.raised = ""
        /\ Flatten(ret.ret) = PackagesOf(call.sizes)

C27_Witness ==
    /\ pc = "bins_returned"
    /\ Len(ret.ret) = 2
    /\ Len(ret.ret[1]) = 2 /\ Len(ret.ret[2]) = 1

\* C28: in main, for sizes of at least 1 and nbins of at least 1, split_bins
\* called with bin_size = total size divided by nbins, rounded down, returns
\* nbins bins: the assertion holds when it is reached and splits[index] is there.
C28_ExactlyNbins ==
    pc = "assert" =>
        /\ Len(ret.splits) = call.nbins
        /\ call.index + 1 \in DOMAIN ret.splits

(***************************************************************************)
(* sync_jira_release.py: the loop of main over the tickets of a release.   *)
(* call holds ticket_keys and version_id; jira holds, for each ticket, the *)
(* status and the fix versions the server has; sent is the list of the     *)
(* requests made, each with what the server answered; sync holds the       *)
(* locals of main.  What the server answers is not in the hands of the     *)
(* program: every request can succeed or fail.  The value None of status   *)
(* is the empty name "", which no status of a workflow has.                *)
(***************************************************************************)
\* the largest number of tickets of a release
MaxTickets == 2

TicketKeys == {"RSDK-" \o ToString(k) : k \in 1..MaxTickets}

Statuses == {"Awaiting Release", "In Progress", "Closed"}

\* the lists of different keys: list(set(...)) of extract_jira_tickets
RECURSIVE KeyLists(_)
KeyLists(keys) ==
    {<< >>} \cup UNION {{<< t >> \o rest : rest \in KeyLists(keys \ {t})} : t \in keys}

\* A plausible slip: the answer to the update of the fix version is not looked at.
fix_version_set_unchecked(status_code) == TRUE

\* set_fix_version_and_close goes on after the PUT: response.status_code == 204
fix_version_set(status_code) == status_code = 204

\* one request with its answer
Request(method, url, ticket_key, answer) ==
    [method |-> method, url |-> url, ticket_key |-> ticket_key, answer |-> answer]

ticket_key == call.ticket_keys[sync.k]

\* the for loop goes to the next ticket
NextTicket(locals) == [locals EXCEPT !.k = @ + 1, !.status = ""]

InitSync ==
    /\ pc = "tickets"
    /\ call \in [ticket_keys : KeyLists(TicketKeys), version_id : {"10001"}]
    /\ jira \in [TicketKeys -> [status : Statuses, fixVersions : {{}}]]
    /\ sent = << >>
    /\ sync = [k |-> 1, status |-> "", closed_count |-> 0, skipped_count |-> 0]
    /\ ret = None /\ ret2 = None
    /\ Idle /\ NoRuns /\ NoWalk

\* if not ticket_keys: return
NoTickets ==
    /\ pc = "tickets"
    /\ pc' = IF call.ticket_keys = << >> THEN "returned" ELSE "loop"
    /\ UNCHANGED <<call, ret, ret2, request, files, resource_name, tree, type_tree, i, j,
                   nodes, imports, subclasses, abstract_methods, resource_file, sorted_code,
                   parVars, walkVars, syncVars>>

\* status = get_ticket_status(ticket_key): the name of the status, or None when
\* the answer is not 200
GetTicketStatus ==
    /\ pc = "loop" /\ sync.k <= Len(call.ticket_keys)
    /\ \E status_code \in {200, 404} :
          LET status == IF status_code = 200 THEN jira[ticket_key].status ELSE "" IN
          /\ sent' = Append(sent, Request("GET", "issue", ticket_key, status))
          /\ sync' = [sync EXCEPT !.status = status]
    /\ pc' = "status"
    /\ UNCHANGED <<call, ret, ret2, request, files, resource_name, tree, type_tree, i, j,
                   nodes, imports, subclasses, abstract_methods, resource_file, sorted_code,
                   parVars, walkVars, jira>>

\* any status but Awaiting Release: the ticket is skipped
SkipTicket ==
    /\ pc = "status" /\ sync.status # "Awaiting Release"
    /\ sync' = NextTicket([sync EXCEPT !.skipped_count = @ + 1])
    /\ pc' = "loop"
    /\ UNCHANGED <<call, ret, ret2, request, files, resource_name, tree, type_tree, i, j,
                   nodes, imports, subclasses, abstract_methods, resource_file, sorted_code,
                   parVars, walkVars, jira, sent>>

\* set_fix_version_and_close, step 1: the PUT of fixVersions; any answer but 204
\* makes it return False
SetFixVersion ==
    /\ pc = "status" /\ sync.status = "Awaiting Release"
    /\ \E status_code \in {204, 400} :
          /\ sent' = Append(sent, Request("PUT", "issue", ticket_key, status_code))
          /\ jira' = IF status_code = 204
                     THEN [jira EXCEPT ![ticket_key].fixVersions = {call.version_id}]
                     ELSE jira
          /\ IF fix_version_set(status_code)
             THEN pc' = "transitions" /\ sync' = sync
             ELSE pc' = "loop" /\ sync' = NextTicket(sync)
    /\ UNCHANGED <<call, ret, ret2, request, files, resource_name, tree, type_tree, i, j,
                   nodes, imports, subclasses, abstract_methods, resource_file, sorted_code,
                   parVars, walkVars>>

\* step 2: the transitions of the ticket are read; without one named close
\* (in any case) the function returns False
GetTransitions ==
    /\ pc = "transitions"
    /\ \E transitions \in {<< >>, << "Reopen" >>, << "Reopen", "Close" >>} :
          /\ sent' = Append(sent, Request("GET", "transitions", ticket_key, transitions))
          /\ IF \E k \in DOMAIN transitions : transitions[k] = "Close"
             THEN pc' = "close" /\ sync' = sync
             ELSE pc' = "loop" /\ sync' = NextTicket(sync)
    /\ UNCHANGED <<call, ret, ret2, request, files, resource_name, tree, type_tree, i, j,
                   nodes, imports, subclasses, abstract_methods, resource_file, sorted_code,
                   parVars, walkVars, jira>>

\* step 3: the POST of the transition; the function returns whether the answer
\* is 204, and main counts the ticket as closed when it is
PostTransition ==
    /\ pc = "close"
    /\ \E status_code \in {204, 400} :
          /\ sent' = Append(sent, Request("POST", "transitions", ticket_key, status_code))
          /\ jira' = IF status_code = 204
                     THEN [jira EXCEPT ![ticket_key].status = "Closed"]
                     ELSE jira
          /\ sync' = NextTicket([sync EXCEPT !.closed_count =
                                    IF status_code = 204 THEN @ + 1 ELSE @])
    /\ pc' = "loop"
    /\ UNCHANGED <<call, ret, ret2, request, files, resource_name, tree, type_tree, i, j,
                   nodes, imports, subclasses, abstract_methods, resource_file, sorted_code,
                   parVars, walkVars>>

\* the loop is over: the summary is printed
Summary ==
    /\ pc = "loop" /\ sync.k > Len(call.ticket_keys)
    /\ pc' = "summary"
    /\ UNCHANGED <<call, ret, ret2, request, files, resource_name, tree, type_tree, i, j,
                   nodes, imports, subclasses, abstract_methods, resource_file, sorted_code,
                   parVars, walkVars, syncVars>>

NextSync ==
    \/ NoTickets
    \/ GetTicketStatus
    \/ SkipTicket
    \/ SetFixVersion
    \/ GetTransitions
    \/ PostTransition
    \/ Summary

SpecSync == InitSync /\ [][NextSync]_vars

\* the requests that change a ticket
IsUpdate(req) == req.method \in {"PUT", "POST"}

IsClose(req) == req.method = "POST" /\ req.url = "transitions"

\* req read the status of ticket t as Awaiting Release
ReadAwaiting(req, t) ==
    /\ req.method = "GET" /\ req.url = "issue" /\ req.ticket_key = t
    /\ req.answer = "Awaiting Release"

\* req set the fix version of ticket t and was answered 204
FixVersionSet(req, t) ==
    req.method = "PUT" /\ req.url = "issue" /\ req.ticket_key = t /\ req.answer = 204

\* C29: a ticket is sent the transition to Closed only after its status was read
\* as Awaiting Release and then the PUT of its fix version was answered 204; a
\* ticket read in another status is sent no PUT and no POST; a ticket whose PUT
\* was not answered 204 is sent no transition.
C29_CloseOnlyAfterFixVersion ==
    /\ \A n \in DOMAIN sent :
          IsClose(sent[n]) =>
              \E a \in 1..(n - 1) : \E b \in (a + 1)..(n - 1) :
                  /\ ReadAwaiting(sent[a], sent[n].ticket_key)
                  /\ FixVersionSet(sent[b], sent[n].ticket_key)
    /\ \A a, n \in DOMAIN sent :
          (/\ sent[a].method = "GET" /\ sent[a].url = "issue"
           /\ sent[a].answer # "Awaiting Release"
           /\ sent[n].ticket_key = sent[a].ticket_key)
              => ~IsUpdate(sent[n])
    /\ \A b, n \in DOMAIN sent :
          (/\ sent[b].method = "PUT" /\ sent[b].answer # 204
           /\ sent[n].ticket_key = sent[b].ticket_key)
              => ~IsClose(sent[n])

C29_Witness ==
    /\ pc = "summary"
    /\ sync.closed_count = 1
    /\ \E n \in DOMAIN sent : IsClose(sent[n]) /\ sent[n].answer = 204
    /\ \E b \in DOMAIN sent : sent[b].method = "PUT" /\ sent[b].answer = 400

\* C30: no two stubs of the returned document have the same name, also when the
\* resource class declares a method under the name of a method of the base
\* class.
C30_StubNamesDistinct ==
    pc = "done" =>
        \A k, m \in DOMAIN sorted_code.abstract_methods :
            sorted_code.abstract_methods[k].name = sorted_code.abstract_methods[m].name
                => k = m

====
